---- MODULE Spec2Model ----
(***************************************************************************)
(* Model of yttranscript's transcript-extraction pipeline                  *)
(* (src/src/yttranscript/core.py): TranscriptExtractor.extract_transcript, *)
(* list_available_languages and _fetch_with_retry, run against a remote    *)
(* transcript source whose answers are chosen by the environment.          *)
(***************************************************************************)
EXTENDS Integers, Sequences, FiniteSets, TLC

(* ------------------------------ bounds --------------------------------- *)
\* largest max_retries handed to TranscriptExtractor.__init__
MaxRetries == 3
\* largest number of tracks in a catalog returned by api.list
MaxCatalog == 2

(* --------------------------- value domains ----------------------------- *)
\* Python's None
None == "None"

\* language codes carried by the tracks of a catalog
Codes == {"en", "es", "fr"}

\* the language argument of extract_transcript: absent, empty, or a code
LanguageArgs == {None, ""} \cup Codes

VideoIds == {"vidAAAAAAAA", "vidBBBBBBBB"}

\* the raw entries a track's fetch() can return: none, or one entry with
\* text 'Hello ', start 0.0 and duration 2.5
TranscriptData ==
  {<< >>,
   <<[style |-> "attr",
      fields |-> [text |-> <<"H", "e", "l", "l", "o", " ">>,
                  start |-> 0, duration |-> 25]]>>}

\* catalogs: the tracks of a TranscriptList in its iteration order,
\* each track given by its language_code
Catalogs == UNION {[1..n -> Codes] : n \in 0..MaxCatalog}

(* --------------------------- exception kinds --------------------------- *)
TranscriptsDisabled == "TranscriptsDisabled"
NoTranscriptFound   == "NoTranscriptFound"
VideoUnavailable    == "VideoUnavailable"
YouTubeRequestFailed == "YouTubeRequestFailed"
RequestBlocked      == "RequestBlocked"
\* any other subclass of Exception raised by the remote call
OtherException      == "Exception"
\* a BaseException that is no Exception: the user's interrupt
KeyboardInterrupt   == "KeyboardInterrupt"
IndexError          == "IndexError"
TypeError           == "TypeError"

TranscriptNotAvailableError == "TranscriptNotAvailableError"
LanguageNotFoundError       == "LanguageNotFoundError"
NetworkError                == "NetworkError"

\* what one call of api.list(video_id) can do, besides returning a catalog
ListFailures == {TranscriptsDisabled, NoTranscriptFound, VideoUnavailable,
                 YouTubeRequestFailed, RequestBlocked, OtherException,
                 KeyboardInterrupt}

\* what one call of transcript.fetch() on a track of the catalog can do,
\* besides returning the entries (the track was found by the lookup, so
\* the lookup's NoTranscriptFound is not among them)
FetchFailures == {TranscriptsDisabled, VideoUnavailable,
                  YouTubeRequestFailed, RequestBlocked, OtherException,
                  KeyboardInterrupt}

\* `if language:` -- None and the empty string are falsy
Truthy(language) == language # None /\ language # ""

(* ------------------------ _fetch_with_retry ---------------------------- *)
\* the loop as a do-while: its body runs once whatever max_retries is
LoopRunsAtLeastOnce(attempt, max) == attempt = 0 \/ attempt < max

\* `for attempt in range(self.max_retries)`: the loop body runs once more
LoopRuns(attempt, max) == attempt < max

\* a float number of seconds is a whole number of ticks
TicksPerSecond == 10

\* random.uniform(0, 1): the jitter of a backoff delay, in ticks, at both
\* ends of [0, 1)
Jitters == {0, TicksPerSecond - 1}

\* the delay without the exponential: 1 + jitter whatever the attempt
DelayConstant(attempt, jitter) == TicksPerSecond + jitter

\* `delay = (2 ** attempt) + random.uniform(0, 1)`, in ticks
Delay(attempt, jitter) == ((2 ^ attempt) * TicksPerSecond) + jitter

\* AfterFailure with the backoff sleep left out: a transient failure goes
\* straight back to the loop
AfterFailureNoBackoff(e, attempt, max) ==
  IF e \in {TranscriptsDisabled, NoTranscriptFound, VideoUnavailable,
            KeyboardInterrupt}
    THEN "done"
  ELSE IF attempt < max - 1 THEN "retry" ELSE "done"

\* AfterFailure without the clause that re-raises permanent failures
AfterFailureRetryPermanent(e, attempt, max) ==
  IF e = KeyboardInterrupt THEN "done"
  ELSE IF attempt < max - 1 THEN "sleeping" ELSE "done"

\* AfterFailure with the off-by-one test `attempt < max_retries`
AfterFailureSleepAfterLast(e, attempt, max) ==
  IF e \in {TranscriptsDisabled, NoTranscriptFound, VideoUnavailable,
            KeyboardInterrupt}
    THEN "done"
  ELSE IF attempt < max THEN "sleeping" ELSE "done"

\* AfterFailure whose last clause re-raises an unclassified exception at
\* once instead of backing off
AfterFailureUnclassifiedFatal(e, attempt, max) ==
  IF e \in {YouTubeRequestFailed, RequestBlocked}
    THEN IF attempt < max - 1 THEN "sleeping" ELSE "done"
  ELSE "done"

\* AfterFailure without the test of the attempts left: a failure that can
\* be retried is always followed by a sleep
AfterFailureAlwaysSleeps(e, attempt, max) ==
  IF e \in {TranscriptsDisabled, NoTranscriptFound, VideoUnavailable,
            KeyboardInterrupt}
    THEN "done"
  ELSE "sleeping"

\* AfterFailure whose last clause catches the user's interrupt as well (as
\* `except BaseException` would) and backs off after it
AfterFailureRetryInterrupt(e, attempt, max) ==
  IF e \in {YouTubeRequestFailed, RequestBlocked}
    THEN IF attempt < max - 1 THEN "sleeping" ELSE "done"
  ELSE IF e \in {TranscriptsDisabled, NoTranscriptFound, VideoUnavailable}
    THEN "done"
  ELSE IF attempt < max - 1 THEN "sleeping" ELSE "done"

\* the except clauses of _fetch_with_retry: where control is after
\* fetch_func() raised e in iteration `attempt`: "sleeping" (time.sleep,
\* then continue) or "done" (the exception leaves _fetch_with_retry)
AfterFailure(e, attempt, max) ==
  IF e \in {YouTubeRequestFailed, RequestBlocked}
    THEN IF attempt < max - 1 THEN "sleeping" ELSE "done"
  ELSE IF e \in {TranscriptsDisabled, NoTranscriptFound, VideoUnavailable}
    THEN "done"
  ELSE IF e = KeyboardInterrupt
    THEN "done"
  ELSE IF attempt < max - 1 THEN "sleeping" ELSE "done"

(* ----------------------- exception translation ------------------------- *)
\* MapExtract whose NoTranscriptFound handler lacks the `if language:` test
\* and always reports that no transcript is available
MapExtractNoLanguageTest(e, language) ==
  IF e \in {TranscriptsDisabled, NoTranscriptFound, VideoUnavailable}
    THEN TranscriptNotAvailableError
  ELSE IF e = KeyboardInterrupt THEN KeyboardInterrupt
  ELSE NetworkError

\* MapExtract whose NoTranscriptFound handler lacks the `if language:` test
\* and always reports the language as not found
MapExtractAlwaysLanguage(e, language) ==
  IF e \in {TranscriptsDisabled, VideoUnavailable}
    THEN TranscriptNotAvailableError
  ELSE IF e = NoTranscriptFound THEN LanguageNotFoundError
  ELSE IF e = KeyboardInterrupt THEN KeyboardInterrupt
  ELSE NetworkError

\* MapExtract with the catch-all handler first: every exception leaves as
\* NetworkError
MapExtractCatchAllFirst(e, language) ==
  IF e = KeyboardInterrupt THEN KeyboardInterrupt ELSE NetworkError

\* the except clauses of extract_transcript: the exception that leaves it
MapExtract(e, language) ==
  IF e = TranscriptsDisabled THEN TranscriptNotAvailableError
  ELSE IF e = NoTranscriptFound
    THEN IF Truthy(language) THEN LanguageNotFoundError
         ELSE TranscriptNotAvailableError
  ELSE IF e = VideoUnavailable THEN TranscriptNotAvailableError
  ELSE IF e = YouTubeRequestFailed THEN NetworkError
  ELSE IF e = RequestBlocked THEN NetworkError
  ELSE IF e = KeyboardInterrupt THEN KeyboardInterrupt
  ELSE NetworkError

\* the message of the raised error names the handler that produced it
MapExtractMsg(e, language) ==
  IF e = TranscriptsDisabled THEN "disabled"
  ELSE IF e = NoTranscriptFound
    THEN IF Truthy(language) THEN "language" ELSE "no transcript"
  ELSE IF e = VideoUnavailable THEN "unavailable"
  ELSE IF e = YouTubeRequestFailed THEN "request failed"
  ELSE IF e = RequestBlocked THEN "blocked"
  ELSE IF e = KeyboardInterrupt THEN ""
  ELSE "network error"

\* MapList without its TranscriptsDisabled and VideoUnavailable handlers
MapListCatchAll(e) ==
  IF e = KeyboardInterrupt THEN KeyboardInterrupt ELSE NetworkError

\* the except clauses of list_available_languages
MapList(e) ==
  IF e = TranscriptsDisabled THEN TranscriptNotAvailableError
  ELSE IF e = VideoUnavailable THEN TranscriptNotAvailableError
  ELSE IF e = KeyboardInterrupt THEN KeyboardInterrupt
  ELSE NetworkError

MapListMsg(e) ==
  IF e = TranscriptsDisabled THEN "disabled"
  ELSE IF e = VideoUnavailable THEN "unavailable"
  ELSE IF e = KeyboardInterrupt THEN ""
  ELSE "list failed"

(* ----------------------------- lookup ---------------------------------- *)
\* TranscriptList.find_transcript([code]): index of the first track of the
\* catalog with that language code, 0 when there is none (NoTranscriptFound)
find_transcript(cat, code) ==
  IF \E i \in 1..Len(cat) : cat[i] = code
    THEN CHOOSE i \in 1..Len(cat) :
           cat[i] = code /\ \A j \in 1..(i - 1) : cat[j] # code
    ELSE 0

(* --------------------------- _build_transcript ------------------------- *)
\* an Optional value: the empty list for None, a one-element list otherwise
Absent == << >>
Some(x) == <<x>>

\* the characters str.strip() removes
Whitespace == {" ", "\n", "\t"}

\* s.strip(): s without its leading and trailing whitespace
RECURSIVE LStrip(_)
LStrip(s) ==
  IF s # << >> /\ Head(s) \in Whitespace THEN LStrip(Tail(s)) ELSE s

RECURSIVE RStrip(_)
RStrip(s) ==
  IF s # << >> /\ s[Len(s)] \in Whitespace
    THEN RStrip(SubSeq(s, 1, Len(s) - 1)) ELSE s

Strip(s) == RStrip(LStrip(s))

\* a raw entry: an object with attributes ("attr": hasattr(item, 'text')
\* holds) or a dict ("dict"); fields maps the attributes or keys it has to
\* their values
\* getattr(item, name, None) / item.get(name)
Get(item, name) ==
  IF name \in DOMAIN item.fields THEN Some(item.fields[name]) ELSE Absent

\* the TranscriptSegment built from one raw entry
SegmentOf(item) ==
  IF item.style = "attr"
    THEN [text |-> Strip(item.fields.text),
          start |-> Get(item, "start"),
          duration |-> Get(item, "duration")]
    ELSE [text |-> Strip(item.fields["text"]),
          start |-> Get(item, "start"),
          duration |-> Get(item, "duration")]

\* _build_transcript that appends each segment at the front of the list
_build_transcript_reversed(vid, code, data) ==
  [video_id |-> vid, language_code |-> code,
   segments |-> [i \in 1..Len(data) |-> SegmentOf(data[Len(data) + 1 - i])]]

\* TranscriptExtractor._build_transcript(video_id, language_code,
\* transcript_data)
_build_transcript(vid, code, data) ==
  [video_id |-> vid, language_code |-> code,
   segments |-> [i \in 1..Len(data) |-> SegmentOf(data[i])]]

NoTranscript == [video_id |-> None, language_code |-> None, segments |-> << >>]

(* ------------------------------- state --------------------------------- *)
VARIABLES
  max_retries,      \* self.max_retries
  op,               \* entry point running: "none", "extract", "list"
  pc,               \* position: "idle", "retry", "sleeping", "select",
                    \*           "fetching", "done"
  video_id,         \* argument video_id
  language,         \* argument language
  attempt,          \* loop variable of _fetch_with_retry
  last_exception,   \* local last_exception of _fetch_with_retry
  transcript_list,  \* the catalog _fetch_with_retry returned
  listTruthy,       \* bool(transcript_list)
  haveList,         \* _fetch_with_retry has returned
  track,            \* index in the catalog of the track being fetched
  trackCode,        \* language_code handed to _build_transcript
  outcomes,         \* outcome of each api.list call so far, in order
  calls,            \* number of api.list calls
  sleeps,           \* number of time.sleep calls
  delays,           \* argument of each time.sleep call so far, in order
  fetched,          \* catalog indexes whose fetch() was called, in order
  fetchOutcomes,    \* outcome of each fetch() call so far, in order
  raisedByRetry,    \* exception that left _fetch_with_retry, or None
  result,           \* what the entry point returned or raised
  cli,              \* the run of cli.main: its arguments, position, effects
  call              \* a function of models.py / formatters.py being
                    \* evaluated: its name, arguments and result

\* the state of a TranscriptExtractor and of its running entry point
extractorVars ==
  <<max_retries, op, pc, video_id, language, attempt, last_exception,
    transcript_list, listTruthy, haveList, track, trackCode,
    outcomes, calls, sleeps, delays, fetched, fetchOutcomes,
    raisedByRetry, result>>

vars == <<extractorVars, cli, call>>

\* cli.main is not running
NoCli == [pc |-> "off"]

\* no function is being evaluated
NoCall == [f |-> "none"]

NoResult == [kind |-> "none", error |-> None, msg |-> "",
             transcript |-> NoTranscript, languages |-> << >>]

Raised(e, m) == [kind |-> "raised", error |-> e, msg |-> m,
                 transcript |-> NoTranscript, languages |-> << >>]

\* the exception e, raised inside the try block of the running entry point,
\* as it leaves the entry point
Surface(e) ==
  IF op = "extract" THEN Raised(MapExtract(e, language), MapExtractMsg(e, language))
  ELSE Raised(MapList(e), MapListMsg(e))

\* TranscriptExtractor.__init__
Init ==
  /\ max_retries \in 0..MaxRetries
  /\ op = "none"
  /\ pc = "idle"
  /\ video_id = None
  /\ language = None
  /\ attempt = 0
  /\ last_exception = None
  /\ transcript_list = << >>
  /\ listTruthy = FALSE
  /\ haveList = FALSE
  /\ track = 0
  /\ trackCode = None
  /\ outcomes = << >>
  /\ calls = 0
  /\ sleeps = 0
  /\ delays = << >>
  /\ fetched = << >>
  /\ fetchOutcomes = << >>
  /\ raisedByRetry = None
  /\ result = NoResult
  /\ cli = NoCli
  /\ call = NoCall

Ok(t) == [kind |-> "ok", error |-> None, msg |-> "",
          transcript |-> t, languages |-> << >>]

OkLanguages(ls) == [kind |-> "ok", error |-> None, msg |-> "",
                    transcript |-> NoTranscript, languages |-> ls]

(* ----------------------------- entry points ---------------------------- *)
\* extract_transcript(video_id, language) is called: control reaches the
\* loop of _fetch_with_retry
ExtractTranscript(v, l) ==
  /\ pc = "idle"
  /\ op' = "extract"
  /\ video_id' = v
  /\ language' = l
  /\ pc' = "retry"
  /\ UNCHANGED <<cli, call, delays,
                 max_retries, attempt, last_exception, transcript_list,
                 listTruthy, haveList, track, trackCode, outcomes, calls,
                 sleeps, fetched, fetchOutcomes, raisedByRetry, result>>

\* list_available_languages(video_id) is called
ListAvailableLanguages(v) ==
  /\ pc = "idle"
  /\ op' = "list"
  /\ video_id' = v
  /\ pc' = "retry"
  /\ UNCHANGED <<cli, call, delays,
                 max_retries, language, attempt, last_exception,
                 transcript_list, listTruthy, haveList, track, trackCode,
                 outcomes, calls, sleeps, fetched, fetchOutcomes,
                 raisedByRetry, result>>

(* --------------------------- _fetch_with_retry ------------------------- *)
\* one iteration of the loop in which fetch_func() returns the catalog
CatalogReturned(cat, truthy) ==
  /\ pc = "retry"
  /\ LoopRuns(attempt, max_retries)
  /\ calls' = calls + 1
  /\ outcomes' = Append(outcomes, "ok")
  /\ transcript_list' = cat
  /\ listTruthy' = truthy
  /\ haveList' = TRUE
  /\ pc' = "select"
  /\ UNCHANGED <<cli, call, delays,
                 max_retries, op, video_id, language, attempt,
                 last_exception, track, trackCode, sleeps, fetched,
                 fetchOutcomes, raisedByRetry, result>>

\* one iteration of the loop in which fetch_func() raises e
CatalogFailed(e) ==
  /\ pc = "retry"
  /\ LoopRuns(attempt, max_retries)
  /\ calls' = calls + 1
  /\ outcomes' = Append(outcomes, e)
  /\ last_exception' =
       IF e \in {TranscriptsDisabled, NoTranscriptFound, VideoUnavailable,
                 KeyboardInterrupt}
         THEN last_exception ELSE e
  /\ pc' = AfterFailure(e, attempt, max_retries)
  /\ IF pc' = "done"
       THEN /\ raisedByRetry' = e
            /\ result' = Surface(e)
       ELSE UNCHANGED <<raisedByRetry, result>>
  /\ UNCHANGED <<cli, call, delays,
                 max_retries, op, video_id, language, attempt,
                 transcript_list, listTruthy, haveList, track, trackCode,
                 sleeps, fetched, fetchOutcomes>>

\* time.sleep(delay), with the delay computed from the attempt and the
\* jitter drawn, returns and the loop continues with the next attempt
Sleep(jitter) ==
  /\ pc = "sleeping"
  /\ sleeps' = sleeps + 1
  /\ delays' = Append(delays, Delay(attempt, jitter))
  /\ attempt' = attempt + 1
  /\ pc' = "retry"
  /\ UNCHANGED <<cli, call, max_retries, op, video_id, language, last_exception,
                 transcript_list, listTruthy, haveList, track, trackCode,
                 outcomes, calls, fetched, fetchOutcomes, raisedByRetry,
                 result>>

\* time.sleep(delay) is interrupted by the user
SleepInterrupted(jitter) ==
  /\ pc = "sleeping"
  /\ sleeps' = sleeps + 1
  /\ delays' = Append(delays, Delay(attempt, jitter))
  /\ raisedByRetry' = KeyboardInterrupt
  /\ result' = Surface(KeyboardInterrupt)
  /\ pc' = "done"
  /\ UNCHANGED <<cli, call, max_retries, op, video_id, language, attempt,
                 last_exception, transcript_list, listTruthy, haveList,
                 track, trackCode, outcomes, calls, fetched, fetchOutcomes>>

\* the loop ends without having returned or raised: `raise last_exception`
\* (raising None is a TypeError)
RetryExhausted ==
  /\ pc = "retry"
  /\ ~LoopRuns(attempt, max_retries)
  /\ LET e == IF last_exception = None THEN TypeError ELSE last_exception
     IN /\ raisedByRetry' = e
        /\ result' = Surface(e)
  /\ pc' = "done"
  /\ UNCHANGED <<cli, call, delays,
                 max_retries, op, video_id, language, attempt,
                 last_exception, transcript_list, listTruthy, haveList,
                 track, trackCode, outcomes, calls, sleeps, fetched,
                 fetchOutcomes>>

(* ------------------------ language selection --------------------------- *)
\* SelectTrack without the attempt at English: with no language requested
\* it takes the first track of the catalog
SelectTrackFirst(cat, truthy, lang) ==
  IF Truthy(lang)
    THEN IF find_transcript(cat, lang) # 0
           THEN [index |-> find_transcript(cat, lang), code |-> lang,
                 exc |-> None]
           ELSE [index |-> 0, code |-> None, exc |-> NoTranscriptFound]
  ELSE IF truthy /\ Len(cat) > 0
    THEN [index |-> 1, code |-> cat[1], exc |-> None]
  ELSE [index |-> 0, code |-> None, exc |-> IndexError]

\* SelectTrack that hands 'en' to _build_transcript in the branch of a
\* requested language too
SelectTrackEnglishCode(cat, truthy, lang) ==
  IF Truthy(lang)
    THEN IF find_transcript(cat, lang) # 0
           THEN [index |-> find_transcript(cat, lang), code |-> "en",
                 exc |-> None]
           ELSE [index |-> 0, code |-> None, exc |-> NoTranscriptFound]
  ELSE IF find_transcript(cat, "en") # 0
    THEN [index |-> find_transcript(cat, "en"), code |-> "en", exc |-> None]
  ELSE IF truthy
    THEN IF Len(cat) > 0
           THEN [index |-> 1, code |-> cat[1], exc |-> None]
           ELSE [index |-> 0, code |-> None, exc |-> IndexError]
  ELSE [index |-> 0, code |-> None, exc |-> TranscriptNotAvailableError]

\* the track extract_transcript chooses in the catalog: its index and the
\* language code handed to _build_transcript, or the exception raised
\* inside the try block when there is none
SelectTrack(cat, truthy, lang) ==
  IF Truthy(lang)
    THEN IF find_transcript(cat, lang) # 0
           THEN [index |-> find_transcript(cat, lang), code |-> lang,
                 exc |-> None]
           ELSE [index |-> 0, code |-> None, exc |-> NoTranscriptFound]
  ELSE IF find_transcript(cat, "en") # 0
    THEN [index |-> find_transcript(cat, "en"), code |-> "en", exc |-> None]
  ELSE IF truthy
    THEN IF Len(cat) > 0
           THEN [index |-> 1, code |-> cat[1], exc |-> None]
           ELSE [index |-> 0, code |-> None, exc |-> IndexError]
  ELSE [index |-> 0, code |-> None, exc |-> TranscriptNotAvailableError]

\* extract_transcript between the return of _fetch_with_retry and the
\* call of fetch() on the chosen track
Select ==
  /\ pc = "select"
  /\ op = "extract"
  /\ LET s == SelectTrack(transcript_list, listTruthy, language)
     IN IF s.exc = None
          THEN /\ track' = s.index
               /\ trackCode' = s.code
               /\ pc' = "fetching"
               /\ UNCHANGED result
          ELSE /\ result' = Surface(s.exc)
               /\ pc' = "done"
               /\ UNCHANGED <<track, trackCode>>
  /\ UNCHANGED <<cli, call, delays,
                 max_retries, op, video_id, language, attempt,
                 last_exception, transcript_list, listTruthy, haveList,
                 outcomes, calls, sleeps, fetched, fetchOutcomes,
                 raisedByRetry>>

\* transcript.fetch() returns the entries; _build_transcript; return
FetchReturned(data) ==
  /\ pc = "fetching"
  /\ fetched' = Append(fetched, track)
  /\ fetchOutcomes' = Append(fetchOutcomes, "ok")
  /\ result' = Ok(_build_transcript(video_id, trackCode, data))
  /\ pc' = "done"
  /\ UNCHANGED <<cli, call, delays,
                 max_retries, op, video_id, language, attempt,
                 last_exception, transcript_list, listTruthy, haveList,
                 track, trackCode, outcomes, calls, sleeps, raisedByRetry>>

\* transcript.fetch() raises e
FetchFailed(e) ==
  /\ pc = "fetching"
  /\ fetched' = Append(fetched, track)
  /\ fetchOutcomes' = Append(fetchOutcomes, e)
  /\ result' = Surface(e)
  /\ pc' = "done"
  /\ UNCHANGED <<cli, call, delays,
                 max_retries, op, video_id, language, attempt,
                 last_exception, transcript_list, listTruthy, haveList,
                 track, trackCode, outcomes, calls, sleeps, raisedByRetry>>

\* list_available_languages between the return of _fetch_with_retry and
\* its own return: one entry per track, in iteration order
BuildLanguageList ==
  /\ pc = "select"
  /\ op = "list"
  /\ result' = OkLanguages(transcript_list)
  /\ pc' = "done"
  /\ UNCHANGED <<cli, call, delays,
                 max_retries, op, video_id, language, attempt,
                 last_exception, transcript_list, listTruthy, haveList,
                 track, trackCode, outcomes, calls, sleeps, fetched,
                 fetchOutcomes, raisedByRetry>>

Next ==
  \/ \E v \in VideoIds, l \in LanguageArgs : ExtractTranscript(v, l)
  \/ \E v \in VideoIds : ListAvailableLanguages(v)
  \/ \E cat \in Catalogs :
       \E truthy \in (IF cat = << >> THEN BOOLEAN ELSE {TRUE}) :
         CatalogReturned(cat, truthy)
  \/ \E e \in ListFailures : CatalogFailed(e)
  \/ \E jitter \in Jitters : Sleep(jitter)
  \/ \E jitter \in Jitters : SleepInterrupted(jitter)
  \/ RetryExhausted
  \/ Select
  \/ \E d \in TranscriptData : FetchReturned(d)
  \/ \E e \in FetchFailures : FetchFailed(e)
  \/ BuildLanguageList

Spec == Init /\ [][Next]_vars

\* every remote call answers or fails and every sleep ends: a step that
\* can be taken is eventually taken
FairSpec == Spec /\ WF_vars(Next)

(* ======================= properties of the pipeline ==================== *)
Transient == {YouTubeRequestFailed, RequestBlocked}
Permanent == {TranscriptsDisabled, NoTranscriptFound, VideoUnavailable}

Last(q) == q[Len(q)]

\* no language was requested (`if language:` is false)
NotRequested == ~Truthy(language)

\* C1: when no language is requested and the catalog returned by the
\* catalog fetch is empty, extract_transcript fails with
\* TranscriptNotAvailableError and with no other error kind.
C1_EmptyCatalogNoTranscriptAvailable ==
  (pc = "done" /\ op = "extract" /\ NotRequested /\ haveList
     /\ transcript_list = << >>)
    => (result.kind = "raised" /\ result.error = TranscriptNotAvailableError)

\* C2: the content fetch of the chosen track runs under the retry policy:
\* an invocation does not end on a transient failure of the content fetch
\* while fewer than max_retries attempts of it were made.
C2_ContentFetchRetried ==
  (pc = "done" /\ fetchOutcomes # << >> /\ Last(fetchOutcomes) \in Transient)
    => Len(fetchOutcomes) >= max_retries

\* C3: when the catalog fetch fails transiently k times and then succeeds
\* on attempt k+1, _fetch_with_retry returns (it raises nothing), the
\* operation was invoked exactly k+1 times, k+1 <= max_retries, and exactly
\* k sleeps happened.
C3_SuccessAfterTransients ==
  (outcomes # << >> /\ Last(outcomes) = "ok"
     /\ \A i \in 1..(Len(outcomes) - 1) : outcomes[i] \in Transient)
    => /\ haveList
       /\ raisedByRetry = None
       /\ calls = Len(outcomes)
       /\ calls <= max_retries
       /\ sleeps = calls - 1

C3_Witness ==
  /\ haveList
  /\ Len(outcomes) = 3
  /\ outcomes[1] \in Transient /\ outcomes[2] \in Transient
  /\ sleeps = 2

\* C4: a permanent failure of the retried operation ends _fetch_with_retry
\* at once: no attempt and no sleep follows it, it is the exception that
\* leaves the fetcher, and when it is the outcome of the first attempt the
\* operation was attempted exactly once and nothing slept.
C4_PermanentNotRetried ==
  /\ \A i \in 1..Len(outcomes) :
       outcomes[i] \in Permanent
         => /\ i = Len(outcomes)
            /\ pc = "done"
            /\ raisedByRetry = outcomes[i]
            /\ calls = i
            /\ sleeps = i - 1
  /\ (outcomes # << >> /\ outcomes[1] \in Permanent)
       => (calls = 1 /\ sleeps = 0)

C4_Witness ==
  /\ pc = "done"
  /\ max_retries = 3
  /\ outcomes = <<NoTranscriptFound>>
  /\ calls = 1 /\ sleeps = 0

\* C5: when every attempt of the catalog fetch fails transiently (and no
\* sleep is interrupted), the operation was invoked exactly max_retries
\* times, exactly max_retries - 1 sleeps happened, the last transient
\* failure is the exception that leaves _fetch_with_retry, and
\* extract_transcript raises NetworkError, from the handler of that last
\* failure.
C5_ExhaustedTransients ==
  (pc = "done" /\ outcomes # << >>
     /\ (\A i \in 1..Len(outcomes) : outcomes[i] \in Transient)
     /\ raisedByRetry # KeyboardInterrupt)
    => /\ calls = max_retries
       /\ Len(outcomes) = max_retries
       /\ sleeps = max_retries - 1
       /\ raisedByRetry = Last(outcomes)
       /\ op = "extract"
            => /\ result.kind = "raised"
               /\ result.error = NetworkError
               /\ result.msg = MapExtractMsg(Last(outcomes), language)

C5_Witness ==
  /\ pc = "done" /\ op = "extract"
  /\ max_retries = 3
  /\ outcomes = <<RequestBlocked, RequestBlocked, YouTubeRequestFailed>>
  /\ sleeps = 2
  /\ result.error = NetworkError /\ result.msg = "request failed"

\* the catalog holds a track with this language code
InCatalog(code) == \E i \in 1..Len(transcript_list) : transcript_list[i] = code

\* C6: when a language is requested and its code is absent from a non-empty
\* catalog, extract_transcript fetches no content and raises
\* LanguageNotFoundError (so never TranscriptNotAvailableError).
C6_AbsentLanguageNotFound ==
  (op = "extract" /\ Truthy(language) /\ haveList
     /\ transcript_list # << >> /\ ~InCatalog(language))
    => /\ pc \in {"select", "done"}
       /\ fetched = << >>
       /\ pc = "done"
            => /\ result.kind = "raised"
               /\ result.error = LanguageNotFoundError

C6_Witness ==
  /\ pc = "done" /\ op = "extract"
  /\ language = "es"
  /\ transcript_list = <<"fr", "en">>
  /\ result.error = LanguageNotFoundError

C9_RequestedTrack ==
  (op = "extract" /\ Truthy(language) /\ haveList /\ InCatalog(language)
     /\ pc # "select")
    => /\ pc \in {"fetching", "done"}
       /\ track \in 1..Len(transcript_list)
       /\ transcript_list[track] = language
       /\ fetched = IF pc = "done" THEN <<track>> ELSE << >>
       /\ result.kind = "ok"
            => /\ result.transcript.language_code = language
               /\ result.transcript.video_id = video_id

C9_Witness ==
  /\ pc = "done" /\ op = "extract" /\ language = "es"
  /\ video_id = "vidBBBBBBBB"
  /\ transcript_list = <<"en", "es">>
  /\ fetched = <<2>>
  /\ result.kind = "ok"
  /\ result.transcript.language_code = "es"
  /\ result.transcript.video_id = "vidBBBBBBBB"

CatalogPermanent == {TranscriptsDisabled, VideoUnavailable}

\* C10: a TranscriptsDisabled or VideoUnavailable raised by the catalog
\* fetch is not retried (no attempt and no sleep follows it; as the first
\* outcome it leaves one attempt and no sleep) and leaves both
\* extract_transcript and list_available_languages as
\* TranscriptNotAvailableError.
C10_CatalogPermanentNotAvailable ==
  /\ \A i \in 1..Len(outcomes) :
       outcomes[i] \in CatalogPermanent
         => /\ i = Len(outcomes)
            /\ calls = i
            /\ sleeps = i - 1
            /\ pc = "done"
            /\ op \in {"extract", "list"}
            /\ result.kind = "raised"
            /\ result.error = TranscriptNotAvailableError
  /\ (outcomes # << >> /\ outcomes[1] \in CatalogPermanent)
       => (calls = 1 /\ sleeps = 0)

C10_Witness ==
  /\ pc = "done" /\ op = "list"
  /\ outcomes = <<TranscriptsDisabled>>
  /\ calls = 1 /\ sleeps = 0
  /\ result.error = TranscriptNotAvailableError

\* the user's interrupt reached the running entry point
Interrupted ==
  \/ raisedByRetry = KeyboardInterrupt
  \/ fetchOutcomes # << >> /\ Last(fetchOutcomes) = KeyboardInterrupt

\* C11: an exception of the catalog fetch that is neither transient nor
\* permanent is followed by a backoff sleep and a further attempt while
\* attempts remain; when every attempt ends that way the operation was
\* invoked exactly max_retries times and NetworkError is raised; and every
\* error extract_transcript raises is TranscriptNotAvailableError,
\* LanguageNotFoundError or NetworkError (the user's interrupt alone goes
\* through untranslated).
C11_UnclassifiedIsNetworkError ==
  /\ \A i \in 1..Len(outcomes) :
       (outcomes[i] = OtherException /\ i < max_retries)
         => \/ Len(outcomes) = i /\ pc = "sleeping" /\ sleeps = i - 1
            \/ sleeps >= i
  /\ (pc = "done" /\ outcomes # << >> /\ ~Interrupted
        /\ \A i \in 1..Len(outcomes) : outcomes[i] = OtherException)
       => /\ calls = max_retries
          /\ sleeps = max_retries - 1
          /\ raisedByRetry = OtherException
          /\ result.kind = "raised"
          /\ result.error = NetworkError
  /\ (op = "extract" /\ result.kind = "raised")
       => \/ result.error \in {TranscriptNotAvailableError,
                               LanguageNotFoundError, NetworkError}
          \/ result.error = KeyboardInterrupt /\ Interrupted

C11_Witness ==
  /\ pc = "done" /\ op = "extract"
  /\ max_retries = 3
  /\ outcomes = <<OtherException, OtherException, OtherException>>
  /\ sleeps = 2
  /\ result.error = NetworkError

(* ======================================================================= *)
(* cli.main (src/src/yttranscript/cli.py): one run of the command, from    *)
(* its arguments to the exit status of the process.                        *)
(* ======================================================================= *)
\* default of TranscriptExtractor.__init__, used by main
DefaultMaxRetries == 3

\* the output_format argument of main
FormatArgs == {"plain", "markdown", "json", "xml"}

\* the output_file argument of main: absent, or a path
OutputFileArgs == {None, "out.txt"}

\* what the output file holds before the run (None: it does not exist)
FileContents == {None, "old"}

\* the members of the enumeration FormatType
PLAIN == "FormatType.PLAIN"
MARKDOWN == "FormatType.MARKDOWN"
JSON == "FormatType.JSON"
FormatTypes == {PLAIN, MARKDOWN, JSON}

\* FormatType(value): the member with that value, or the ValueError of a
\* value no member has
FormatType(value) ==
  IF value = "plain" THEN PLAIN
  ELSE IF value = "markdown" THEN MARKDOWN
  ELSE IF value = "json" THEN JSON
  ELSE "ValueError: not a valid FormatType"

\* get_formatter with the plain renderer as the answer to every other
\* argument
get_formatter_default_plain(format_type) ==
  IF format_type = MARKDOWN THEN "MarkdownFormatter"
  ELSE "PlainFormatter"

\* get_formatter(format_type): the formatter, or the ValueError raised
get_formatter(format_type) ==
  IF format_type = PLAIN THEN "PlainFormatter"
  ELSE IF format_type = MARKDOWN THEN "MarkdownFormatter"
  ELSE IF format_type = JSON THEN "ValueError: not yet implemented"
  ELSE "ValueError: unsupported format"

\* `format_type = FormatType(output_format.lower())` followed by
\* `formatter = get_formatter(format_type)` (output_format in lower case)
SelectFormatter(output_format) ==
  IF FormatType(output_format) \in FormatTypes
    THEN get_formatter(FormatType(output_format))
    ELSE FormatType(output_format)

IsFormatter(x) == x \in {"PlainFormatter", "MarkdownFormatter"}

\* exceptions that can be raised inside the try block of extract_transcript
RaisedInExtract ==
  ListFailures \cup FetchFailures
    \cup {NoTranscriptFound, IndexError, TranscriptNotAvailableError}

InvalidUrlError == "InvalidUrlError"
FileOutputError == "FileOutputError"
ValueError      == "ValueError"
\* click.Abort, raised by click.confirm when the prompt is aborted
Abort           == "Abort"
\* main's own conditions that end the run without an exception
UsageError      == "list-languages with output options"
NoLanguages     == "no transcript languages available"
Cancelled       == "operation cancelled"

\* ExitStatus with LanguageNotFoundError handled in the same clause as
\* the other two errors of extract_transcript
ExitStatusOneClause(kind) ==
  IF kind \in {InvalidUrlError, UsageError, NoLanguages, ValueError} THEN 1
  ELSE IF kind \in {TranscriptNotAvailableError, NetworkError,
                    LanguageNotFoundError} THEN 2
  ELSE IF kind = FileOutputError THEN 5
  ELSE IF kind = KeyboardInterrupt THEN 130
  ELSE IF kind = Cancelled THEN 0
  ELSE 99

\* ExitStatus without the `if not languages:` test of the listing branch:
\* an empty listing ends like any other listing
ExitStatusEmptyListingOk(kind) ==
  IF kind \in {InvalidUrlError, UsageError, ValueError} THEN 1
  ELSE IF kind = NoLanguages THEN 0
  ELSE IF kind \in {TranscriptNotAvailableError, NetworkError} THEN 2
  ELSE IF kind = LanguageNotFoundError THEN 3
  ELSE IF kind = FileOutputError THEN 5
  ELSE IF kind = KeyboardInterrupt THEN 130
  ELSE IF kind = Cancelled THEN 0
  ELSE 99

\* the argument of sys.exit in the handler of main that catches `kind`
ExitStatus(kind) ==
  IF kind = InvalidUrlError THEN 1
  ELSE IF kind = UsageError THEN 1
  ELSE IF kind = NoLanguages THEN 1
  ELSE IF kind \in {TranscriptNotAvailableError, NetworkError} THEN 2
  ELSE IF kind = LanguageNotFoundError THEN 3
  ELSE IF kind = ValueError THEN 1
  ELSE IF kind = Cancelled THEN 0
  ELSE IF kind = FileOutputError THEN 5
  ELSE IF kind = KeyboardInterrupt THEN 130
  ELSE 99

\* main is entered with its arguments; nothing has happened yet
CliStates ==
  [pc : {"start"},
   output_format : FormatArgs,
   output_file : OutputFileArgs,
   language_code : {None, "es"},
   timestamps : BOOLEAN,
   list_languages : BOOLEAN,
   force : BOOLEAN,
   file : FileContents,        \* content of the output file
   catalog : {<< >>},          \* catalog the listing call got
   listed : {FALSE},           \* list_available_languages returned
   languages : {<< >>},        \* what it returned
   content : {None},           \* formatted_content
   prompted : {FALSE},         \* click.confirm was called
   confirmed : {FALSE},        \* ... and answered yes
   error : {None},             \* the condition that ended the run
   exit : {-1}]                \* exit status of the process (-1: running)

\* the extractor stays as constructed
ExtractorIdle ==
  /\ max_retries = DefaultMaxRetries
  /\ op = "none"
  /\ pc = "idle"
  /\ video_id = None
  /\ language = None
  /\ attempt = 0
  /\ last_exception = None
  /\ transcript_list = << >>
  /\ listTruthy = FALSE
  /\ haveList = FALSE
  /\ track = 0
  /\ trackCode = None
  /\ outcomes = << >>
  /\ calls = 0
  /\ sleeps = 0
  /\ delays = << >>
  /\ fetched = << >>
  /\ fetchOutcomes = << >>
  /\ raisedByRetry = None
  /\ result = NoResult

InitCli ==
  /\ ExtractorIdle
  /\ call = NoCall
  /\ cli \in CliStates

\* the run ends with `kind`: sys.exit in the handler that catches it
Exit(kind) == [cli EXCEPT !.pc = "exited", !.error = kind,
                          !.exit = ExitStatus(kind)]

\* the run ends normally (main returns)
Return == [cli EXCEPT !.pc = "exited", !.exit = 0]

\* Video.from_url(url) returns a Video or raises InvalidUrlError
CliResolve(valid) ==
  /\ cli.pc = "start"
  /\ cli' = IF valid THEN [cli EXCEPT !.pc = "resolved"]
            ELSE Exit(InvalidUrlError)
  /\ UNCHANGED <<extractorVars, call>>

\* --list-languages together with an output option
CliListUsage ==
  /\ cli.pc = "resolved"
  /\ cli.list_languages
  /\ cli.output_file # None \/ cli.timestamps \/ cli.output_format # "plain"
  /\ cli' = Exit(UsageError)
  /\ UNCHANGED <<extractorVars, call>>

\* list_available_languages returns the entries of the catalog
CliListReturned(cat) ==
  /\ cli.pc = "resolved"
  /\ cli.list_languages
  /\ ~(cli.output_file # None \/ cli.timestamps \/ cli.output_format # "plain")
  /\ LET c == [cli EXCEPT !.catalog = cat, !.listed = TRUE,
                          !.languages = OkLanguages(cat).languages]
     IN cli' = IF c.languages = << >>
                 THEN [c EXCEPT !.pc = "exited", !.error = NoLanguages,
                                !.exit = ExitStatus(NoLanguages)]
                 ELSE [c EXCEPT !.pc = "exited", !.exit = 0]
  /\ UNCHANGED <<extractorVars, call>>

\* list_available_languages raises: e left _fetch_with_retry
CliListRaised(e) ==
  /\ cli.pc = "resolved"
  /\ cli.list_languages
  /\ ~(cli.output_file # None \/ cli.timestamps \/ cli.output_format # "plain")
  /\ cli' = Exit(MapList(e))
  /\ UNCHANGED <<extractorVars, call>>

\* extract_transcript returns a Transcript
CliExtractReturned ==
  /\ cli.pc = "resolved"
  /\ ~cli.list_languages
  /\ cli' = [cli EXCEPT !.pc = "extracted"]
  /\ UNCHANGED <<extractorVars, call>>

\* extract_transcript raises: e was raised inside its try block
CliExtractRaised(e) ==
  /\ cli.pc = "resolved"
  /\ ~cli.list_languages
  /\ cli' = Exit(MapExtract(e, cli.language_code))
  /\ UNCHANGED <<extractorVars, call>>

\* FormatType(...), get_formatter(...), formatter.format(...)
CliFormat ==
  /\ cli.pc = "extracted"
  /\ cli' = IF IsFormatter(SelectFormatter(cli.output_format))
              THEN [cli EXCEPT !.pc = "formatted", !.content = "new"]
              ELSE Exit(ValueError)
  /\ UNCHANGED <<extractorVars, call>>

\* no output file: the transcript goes to stdout and main returns
CliStdout ==
  /\ cli.pc = "formatted"
  /\ cli.output_file = None
  /\ cli' = Return
  /\ UNCHANGED <<extractorVars, call>>

\* CliCheckFile without the existence test: the write follows at once
CliCheckFileNoPrompt ==
  /\ cli.pc = "formatted"
  /\ cli.output_file # None
  /\ cli' = [cli EXCEPT !.pc = "writing"]
  /\ UNCHANGED <<extractorVars, call>>

\* an output file: the existence test, then the prompt or the write
CliCheckFile ==
  /\ cli.pc = "formatted"
  /\ cli.output_file # None
  /\ cli' = IF cli.file # None /\ ~cli.force
              THEN [cli EXCEPT !.pc = "confirm", !.prompted = TRUE]
              ELSE [cli EXCEPT !.pc = "writing"]
  /\ UNCHANGED <<extractorVars, call>>

\* click.confirm returns the user's answer, or is aborted
CliConfirm(answer) ==
  /\ cli.pc = "confirm"
  /\ cli' = IF answer = "yes"
              THEN [cli EXCEPT !.pc = "writing", !.confirmed = TRUE]
            ELSE IF answer = "no" THEN Exit(Cancelled)
            ELSE Exit(Abort)
  /\ UNCHANGED <<extractorVars, call>>

\* mkdir and write_text succeed, or raise OSError (FileOutputError)
CliWrite(ok) ==
  /\ cli.pc = "writing"
  /\ cli' = IF ok THEN [Return EXCEPT !.file = cli.content]
            ELSE Exit(FileOutputError)
  /\ UNCHANGED <<extractorVars, call>>

NextCli ==
  \/ \E valid \in BOOLEAN : CliResolve(valid)
  \/ CliListUsage
  \/ \E cat \in Catalogs : CliListReturned(cat)
  \/ \E e \in ListFailures : CliListRaised(e)
  \/ CliExtractReturned
  \/ \E e \in RaisedInExtract : CliExtractRaised(e)
  \/ CliFormat
  \/ CliStdout
  \/ CliCheckFile
  \/ \E answer \in {"yes", "no", "abort"} : CliConfirm(answer)
  \/ \E ok \in BOOLEAN : CliWrite(ok)

SpecCli == InitCli /\ [][NextCli]_vars

(* ========================= properties of cli.main ====================== *)
\* the error kinds of the pipeline as main sees them
ErrorKinds ==
  {InvalidUrlError, TranscriptNotAvailableError, LanguageNotFoundError,
   NetworkError, ValueError, FileOutputError}

CliExited == cli.pc = "exited"

\* C12 (as stated), for the error kinds extract_transcript raises: a run
\* that ends with one of them ends with an exit status that no other error
\* kind produces.
C12_ExitStatusIdentifiesKind ==
  (CliExited /\ cli.error \in {TranscriptNotAvailableError,
                               LanguageNotFoundError, NetworkError})
    => \A k \in ErrorKinds \ {cli.error} : ExitStatus(k) # cli.exit

\* C12 (amended): LanguageNotFoundError ends the run with status 3 and
\* FileOutputError with status 5, and no other run ends with these;
\* TranscriptNotAvailableError and NetworkError both end it with status 2,
\* which nothing else produces; InvalidUrlError and a render failure
\* (ValueError) both end it with status 1.
C12_ExitStatusGroups ==
  CliExited
    => /\ (cli.error = LanguageNotFoundError) <=> (cli.exit = 3)
       /\ (cli.error = FileOutputError) <=> (cli.exit = 5)
       /\ (cli.error \in {TranscriptNotAvailableError, NetworkError})
            <=> (cli.exit = 2)
       /\ (cli.error \in {InvalidUrlError, ValueError}) => (cli.exit = 1)

C12_Witness ==
  /\ CliExited
  /\ cli.error = LanguageNotFoundError
  /\ cli.exit = 3

Letters ==
  {"a", "b", "c", "d", "e", "f", "g", "h", "i", "j", "k", "l", "m", "n",
   "o", "p", "q", "r", "s", "t", "u", "v", "w", "x", "y", "z",
   "A", "B", "C", "D", "E", "F", "G", "H", "I", "J", "K", "L", "M", "N",
   "O", "P", "Q", "R", "S", "T", "U", "V", "W", "X", "Y", "Z"}

Digits == {"0", "1", "2", "3", "4", "5", "6", "7", "8", "9"}

\* s + t
Cat(s, t) == s \o t

\* s[i:] with a 0-based Python index i
From(s, i) == SubSeq(s, i + 1, Len(s))

\* s[:i] with a 0-based Python index i
Upto(s, i) == SubSeq(s, 1, i)

\* s.find(sub): 0-based index of the first occurrence, -1 when absent
StrFind(s, sub) ==
  LET hits == {i \in 0..(Len(s) - Len(sub)) :
                 SubSeq(s, i + 1, i + Len(sub)) = sub}
  IN IF hits = {} THEN -1
     ELSE CHOOSE i \in hits : \A j \in hits : i <= j

\* sub in s
StrIn(sub, s) == StrFind(s, sub) >= 0

\* s.startswith(prefix)
StartsWith(s, prefix) ==
  Len(prefix) <= Len(s) /\ SubSeq(s, 1, Len(prefix)) = prefix

\* s.replace(c, '') for a character c
RECURSIVE Remove(_, _)
Remove(s, c) ==
  IF s = << >> THEN << >>
  ELSE IF Head(s) = c THEN Remove(Tail(s), c)
  ELSE <<Head(s)>> \o Remove(Tail(s), c)

\* s.replace('+', ' ')
PlusToSpace(s) == [i \in 1..Len(s) |-> IF s[i] = "+" THEN " " ELSE s[i]]

\* s.isalnum(): non-empty and every character a letter or a digit
isalnum(s) ==
  s # << >> /\ \A i \in 1..Len(s) : s[i] \in Letters \cup Digits

\* s.lstrip('/')
RECURSIVE LStripSlash(_)
LStripSlash(s) ==
  IF s # << >> /\ Head(s) = "/" THEN LStripSlash(Tail(s)) ELSE s

\* s.split(sep): the list of the pieces between the occurrences of sep
RECURSIVE StrSplit(_, _)
StrSplit(s, sep) ==
  LET i == StrFind(s, sep)
  IN IF i < 0 THEN <<s>>
     ELSE <<Upto(s, i)>> \o StrSplit(From(s, i + Len(sep)), sep)

\* s.split(sep, 1)
StrSplit1(s, sep) ==
  LET i == StrFind(s, sep)
  IN IF i < 0 THEN <<s>> ELSE <<Upto(s, i), From(s, i + Len(sep))>>

(* ------------------------------ urlparse ------------------------------- *)
\* urllib.parse.scheme_chars
SchemeChars == Letters \cup Digits \cup {"+", "-", "."}

\* the index at which the netloc ends: the first of / ? # at or after
\* index 2, or the end of the string (urllib.parse._splitnetloc)
NetlocEnd(u) ==
  LET ends == {i \in 2..(Len(u) - 1) : u[i + 1] \in {"/", "?", "#"}}
  IN IF ends = {} THEN Len(u)
     ELSE CHOOSE i \in ends : \A j \in ends : i <= j

\* urlparse(url): scheme, netloc, path, query, fragment of the URL, or the
\* ValueError of a netloc with an unmatched square bracket
urlparse(url) ==
  LET colon == StrFind(url, <<":">>)
      hasScheme == /\ colon > 0
                   /\ url[1] \in Letters
                   /\ \A i \in 1..colon : url[i] \in SchemeChars
      scheme == IF hasScheme THEN Upto(url, colon) ELSE << >>
      rest1 == IF hasScheme THEN From(url, colon + 1) ELSE url
      hasNetloc == StartsWith(rest1, <<"/", "/">>)
      netloc == IF hasNetloc THEN SubSeq(rest1, 3, NetlocEnd(rest1))
                ELSE << >>
      rest2 == IF hasNetloc THEN From(rest1, NetlocEnd(rest1)) ELSE rest1
      hash == StrFind(rest2, <<"#">>)
      fragment == IF hash >= 0 THEN From(rest2, hash + 1) ELSE << >>
      rest3 == IF hash >= 0 THEN Upto(rest2, hash) ELSE rest2
      qm == StrFind(rest3, <<"?">>)
      query == IF qm >= 0 THEN From(rest3, qm + 1) ELSE << >>
      path == IF qm >= 0 THEN Upto(rest3, qm) ELSE rest3
  IN IF (StrIn(<<"[">>, netloc) /\ ~StrIn(<<"]">>, netloc))
          \/ (StrIn(<<"]">>, netloc) /\ ~StrIn(<<"[">>, netloc))
       THEN [error |-> ValueError, scheme |-> << >>, netloc |-> << >>,
             path |-> << >>, query |-> << >>, fragment |-> << >>]
       ELSE [error |-> None, scheme |-> scheme, netloc |-> netloc,
             path |-> path, query |-> query, fragment |-> fragment]

\* parse_qs(query).get(name, [None])[0]: the value of the first field
\* name=value of the query with that name and a non-empty value, as a
\* one-element list; the empty list when there is none (None)
RECURSIVE FirstValue(_, _)
FirstValue(fields, name) ==
  IF fields = << >> THEN << >>
  ELSE LET nv == StrSplit1(Head(fields), <<"=">>)
       IN IF Len(nv) = 2 /\ nv[2] # << >> /\ PlusToSpace(nv[1]) = name
            THEN <<PlusToSpace(nv[2])>>
            ELSE FirstValue(Tail(fields), name)

parse_qs_get(query, name) == FirstValue(StrSplit(query, <<"&">>), name)

(* ------------------------------ from_url ------------------------------- *)
YOUTUBE_COM ==
  <<"y", "o", "u", "t", "u", "b", "e", ".", "c", "o", "m">>

YOUTU_BE ==
  <<"y", "o", "u", "t", "u", ".", "b", "e">>

WATCH ==
  <<"/", "w", "a", "t", "c", "h">>

EMBED ==
  <<"/", "e", "m", "b", "e", "d", "/">>

CANONICAL ==
  <<"h", "t", "t", "p", "s", ":", "/", "/", "y", "o", "u", "t", "u", "b",
    "e", ".", "c", "o", "m", "/", "w", "a", "t", "c", "h", "?", "v", "=">>

\* a Video, or the exception raised instead
VideoOf(id, u) == [error |-> None, video_id |-> id, url |-> u]
NoVideo(e) == [error |-> e, video_id |-> << >>, url |-> << >>]

\* `len(url) == 11 and url.replace('-', '').replace('_', '').isalnum()`
BareId(url) ==
  Len(url) = 11 /\ isalnum(Remove(Remove(url, "-"), "_"))

\* an extracted id, as a one-element list, the empty list standing for
\* None; or no id because the host is not recognized (the raise of line 41)
Found(id) == [recognized |-> TRUE, video_id |-> id]
Unrecognized == [recognized |-> FALSE, video_id |-> << >>]

\* the extraction with the short-form path taken whole, leading slash kept
ExtractIdKeepSlash(parsed) ==
  IF StrIn(YOUTUBE_COM, parsed.netloc)
    THEN IF parsed.path = WATCH
           THEN Found(parse_qs_get(parsed.query, <<"v">>))
         ELSE IF StartsWith(parsed.path, EMBED)
           THEN Found(<<StrSplit(StrSplit(parsed.path, EMBED)[2],
                                 <<"?">>)[1]>>)
         ELSE Found(<< >>)
  ELSE IF StrIn(YOUTU_BE, parsed.netloc)
    THEN Found(<<StrSplit(parsed.path, <<"?">>)[1]>>)
  ELSE Unrecognized

\* the id from_url extracts from a parsed URL
ExtractId(parsed) ==
  IF StrIn(YOUTUBE_COM, parsed.netloc)
    THEN IF parsed.path = WATCH
           THEN Found(parse_qs_get(parsed.query, <<"v">>))
         ELSE IF StartsWith(parsed.path, EMBED)
           THEN Found(<<StrSplit(StrSplit(parsed.path, EMBED)[2],
                                 <<"?">>)[1]>>)
         ELSE Found(<< >>)
  ELSE IF StrIn(YOUTU_BE, parsed.netloc)
    THEN Found(<<StrSplit(LStripSlash(parsed.path), <<"?">>)[1]>>)
  ELSE Unrecognized

\* the test of line 43 without its length clause
BadIdEmptyOnly(id) ==
  id = << >> \/ id[1] = << >>

\* `if not video_id or len(video_id) != 11`
BadId(id) ==
  id = << >> \/ id[1] = << >> \/ Len(id[1]) # 11

\* Video.from_url(url)
from_url(url) ==
  IF BareId(url) THEN VideoOf(url, Cat(CANONICAL, url))
  ELSE LET parsed == urlparse(url)
       IN IF parsed.error # None THEN NoVideo(parsed.error)
          ELSE LET found == ExtractId(parsed)
               IN IF ~found.recognized THEN NoVideo(InvalidUrlError)
                  ELSE IF BadId(found.video_id) THEN NoVideo(InvalidUrlError)
                  ELSE VideoOf(found.video_id[1], url)

(* ------------------- the inputs from_url is applied to ----------------- *)
\* well-formed ids: 11 characters of the restricted charset, one of them a letter or digit
Ids ==
  {<<"d", "Q", "w", "4", "w", "9", "W", "g", "X", "c", "Q">>,
   <<"d", "Q", "w", "4", "w", "9", "W", "g", "X", "-", "Q">>,
   <<"a", "_", "b", "-", "c", "_", "d", "-", "e", "_", "f">>}

\* 11 characters, hyphens and underscores only
PunctuationIds ==
  {<<"-", "-", "-", "-", "-", "-", "-", "-", "-", "-", "-">>,
   <<"_", "-", "_", "-", "_", "-", "_", "-", "_", "-", "_">>}

\* not ids: a character outside the charset, too short, too long, empty
MalformedIds ==
  {<<"a", "b", "c", "!", "d", "e", "f", "$", "h", "i", "j">>,
   <<"s", "h", "o", "r", "t", "i", "d">>,
   <<"d", "Q", "w", "4", "w", "9", "W", "g", "X", "c", "Q", "x">>,
   << >>}

Candidates == Ids \cup PunctuationIds \cup MalformedIds

\* nothing, or a scheme and the two slashes that open the host
Schemes ==
  {<< >>,
   <<"h", "t", "t", "p", "s", ":", "/", "/">>,
   <<"h", "t", "t", "p", ":", "/", "/">>}

\* hosts holding the long-form or the short-form domain
RecognizedHosts ==
  {<<"y", "o", "u", "t", "u", "b", "e", ".", "c", "o", "m">>,
   <<"w", "w", "w", ".", "y", "o", "u", "t", "u", "b", "e", ".", "c", "o", "m">>,
   <<"y", "o", "u", "t", "u", ".", "b", "e">>}

\* hosts holding neither domain, one of them with an unmatched bracket
OtherHosts ==
  {<<"v", "i", "m", "e", "o", ".", "c", "o", "m">>,
   <<"[", "v", "i", "m", "e", "o", ".", "c", "o", "m">>,
   << >>}

Hosts == RecognizedHosts \cup OtherHosts

\* paths that carry no candidate id
FixedPaths ==
  {<< >>,
   <<"/">>,
   <<"/", "w", "a", "t", "c", "h">>,
   <<"/", "w", "a", "t", "c", "h", "/">>,
   <<"/", "e", "m", "b", "e", "d", "/">>,
   <<"/", "1", "2", "3", "4", "5", "6">>}

\* the paths: fixed ones and those that carry a candidate id
Paths ==
  FixedPaths
    \cup {Cat(p, x) : p \in {<<"/">>, <<"/", "/">>, EMBED}, x \in Candidates}

\* queries without a value for v
FixedQueries ==
  {<< >>,
   <<"?", "t", "=", "5">>,
   <<"?", "v", "=">>,
   <<"?", "f", "e", "a", "t", "u", "r", "e", "=", "v">>}

\* the queries: fixed ones and those that give v a candidate id, alone,
\* followed or preceded by another parameter
Queries ==
  FixedQueries
    \cup {Cat(<<"?", "v", "=">>, x) : x \in Candidates}
    \cup {Cat(Cat(<<"?", "v", "=">>, x), <<"&", "t", "=", "5", "s">>) :
            x \in Ids}
    \cup {Cat(<<"?", "t", "=", "5", "&", "v", "=">>, x) : x \in Ids}

\* every input: the bare candidates and every composed URL
UrlInputs ==
  Candidates
    \cup {Cat(Cat(Cat(s, h), p), q) :
            s \in Schemes, h \in Hosts, p \in Paths, q \in Queries}

(* --------------------- the specification of from_url ------------------- *)
\* a call of Video.from_url(url) that has not run / that has returned ret
FromUrlCalled(u) == [f |-> "from_url", url |-> u, done |-> FALSE]
FromUrlDone(u, ret) == [f |-> "from_url", url |-> u, done |-> TRUE, ret |-> ret]

InitUrl ==
  /\ ExtractorIdle
  /\ cli = NoCli
  /\ call \in {FromUrlCalled(u) : u \in UrlInputs}

\* Video.from_url runs to its return or its raise
FromUrl ==
  /\ call.f = "from_url"
  /\ ~call.done
  /\ call' = FromUrlDone(call.url, from_url(call.url))
  /\ UNCHANGED <<extractorVars, cli>>

NextUrl == FromUrl

SpecUrl == InitUrl /\ [][NextUrl]_vars

(* --------------------------- claims on from_url ------------------------ *)
\* the characters an id may hold
IdChars == Letters \cup Digits \cup {"-", "_"}

\* a string of exactly 11 characters of the id charset
IdShaped(s) == Len(s) = 11 /\ \A i \in 1..Len(s) : s[i] \in IdChars

\* Video.from_url has returned or raised
UrlDone == call.f = "from_url" /\ call.done

\* Video.from_url has returned a Video
UrlReturned == UrlDone /\ call.ret.error = None

\* C14: every 11-character input of letters, digits, hyphens and
\* underscores, those made only of hyphens and underscores included,
\* resolves to itself as video_id and to the canonical watch URL as url.
C14_BareIdAccepted ==
  (UrlDone /\ IdShaped(call.url))
    => /\ call.ret.error = None
       /\ call.ret.video_id = call.url
       /\ call.ret.url = Cat(CANONICAL, call.url)

\* C15: a Video returned by from_url, for a bare id or any URL shape, has a
\* non-empty video_id of exactly 11 characters.
C15_ReturnedIdHasLengthEleven ==
  UrlReturned => (call.ret.video_id # << >> /\ Len(call.ret.video_id) = 11)

\* an id of 11 characters was extracted from a URL, not taken as a bare id
C15_Witness ==
  /\ UrlReturned
  /\ Len(call.url) > 11
  /\ Len(call.ret.video_id) = 11
  /\ call.ret.url = call.url

\* C16: every character of the video_id of a returned Video is a letter, a
\* digit, a hyphen or an underscore, for watch, embed and short-form URLs
\* as for bare ids.
C16_ReturnedIdCharset ==
  UrlReturned
    => \A i \in 1..Len(call.ret.video_id) : call.ret.video_id[i] \in IdChars

\* C17: an input that is not a bare id and holds neither the long-form nor
\* the short-form domain (so that its host holds neither) fails with
\* InvalidUrlError and returns no Video.
C17_UnrecognizedHostIsInvalidUrl ==
  (/\ UrlDone
   /\ ~IdShaped(call.url)
   /\ ~StrIn(YOUTUBE_COM, call.url)
   /\ ~StrIn(YOUTU_BE, call.url))
    => call.ret.error = InvalidUrlError

\* the accepted URL shapes that carry the id x
WatchShapes(x) ==
  {Cat(Cat(Cat(s, h), WATCH), q) :
     s \in Schemes \ {<< >>},
     h \in {h \in RecognizedHosts : StrIn(YOUTUBE_COM, h)},
     q \in {Cat(<<"?", "v", "=">>, x),
            Cat(Cat(<<"?", "v", "=">>, x), <<"&", "t", "=", "5", "s">>),
            Cat(<<"?", "t", "=", "5", "&", "v", "=">>, x)}}

EmbedShapes(x) ==
  {Cat(Cat(Cat(s, h), Cat(EMBED, x)), q) :
     s \in Schemes \ {<< >>},
     h \in {h \in RecognizedHosts : StrIn(YOUTUBE_COM, h)},
     q \in {<< >>, <<"?", "t", "=", "5">>}}

ShortShapes(x) ==
  {Cat(Cat(Cat(s, YOUTU_BE), Cat(<<"/">>, x)), q) :
     s \in Schemes \ {<< >>},
     q \in {<< >>, <<"?", "t", "=", "5">>}}

AcceptedShapes(x) == WatchShapes(x) \cup EmbedShapes(x) \cup ShortShapes(x)

\* C18: for an 11-character id X, each accepted URL shape (/watch with
\* v=X, with or without www. and further parameters; /embed/X and the
\* short-form /X, with or without a query string) yields video_id = X and
\* the url exactly as given.
C18_AcceptedShapesYieldId ==
  \A x \in Ids \cup PunctuationIds :
    (UrlDone /\ call.url \in AcceptedShapes(x))
      => /\ call.ret.error = None
         /\ call.ret.video_id = x
         /\ call.ret.url = call.url

\* a short-form URL with a query string gave the id of its path
C18_Witness ==
  /\ UrlReturned
  /\ \E x \in Ids : /\ call.url \in ShortShapes(x)
                    /\ StrIn(<<"?">>, call.url)
                    /\ call.ret.video_id = x

(* ======================================================================= *)
(* TranscriptSegment.format_timestamp (src/src/yttranscript/models.py) and *)
(* PlainFormatter.format (src/src/yttranscript/formatters.py).             *)
(* ======================================================================= *)
\* longest transcript rendered
MaxSegments == 2

\* the decimal digits in order
DigitSeq == <<"0", "1", "2", "3", "4", "5", "6", "7", "8", "9">>

\* str(n) for n >= 0
RECURSIVE Decimal(_)
Decimal(n) ==
  IF n < 10 THEN <<DigitSeq[n + 1]>>
  ELSE Decimal(n \div 10) \o <<DigitSeq[(n % 10) + 1]>>

\* f"{n:02d}" for n >= 0: zero-padded to a width of at least two
Format02d(n) == IF n < 10 THEN <<"0">> \o Decimal(n) ELSE Decimal(n)

\* format_timestamp with the start rounded to the nearest second
format_timestamp_rounded(start) ==
  IF start = Absent THEN << >>
  ELSE LET t == start[1] + (TicksPerSecond \div 2)
           hours == t \div (3600 * TicksPerSecond)
           minutes == (t % (3600 * TicksPerSecond)) \div (60 * TicksPerSecond)
           seconds == (t % (60 * TicksPerSecond)) \div TicksPerSecond
       IN <<"[">> \o Format02d(hours) \o <<":">> \o Format02d(minutes)
            \o <<":">> \o Format02d(seconds) \o <<"]">>

\* TranscriptSegment.format_timestamp(), start in ticks:
\*   hours = int(start // 3600); minutes = int((start % 3600) // 60);
\*   seconds = int(start % 60)
format_timestamp(start) ==
  IF start = Absent THEN << >>
  ELSE LET t == start[1]
           hours == t \div (3600 * TicksPerSecond)
           minutes == (t % (3600 * TicksPerSecond)) \div (60 * TicksPerSecond)
           seconds == (t % (60 * TicksPerSecond)) \div TicksPerSecond
       IN <<"[">> \o Format02d(hours) \o <<":">> \o Format02d(minutes)
            \o <<":">> \o Format02d(seconds) \o <<"]">>

\* sep.join(lines)
RECURSIVE Join(_, _)
Join(lines, sep) ==
  IF lines = << >> THEN << >>
  ELSE IF Len(lines) = 1 THEN lines[1]
  ELSE lines[1] \o sep \o Join(Tail(lines), sep)

\* the line PlainFormatter.format builds for one segment
PlainLine(segment, include_timestamps) ==
  IF include_timestamps /\ segment.start # Absent
    THEN format_timestamp(segment.start) \o <<" ">> \o segment.text
    ELSE segment.text

\* PlainFormatter.format(transcript, include_timestamps)
PlainFormatter_format(segments, include_timestamps) ==
  Join([i \in 1..Len(segments) |->
          PlainLine(segments[i], include_timestamps)], <<"\n">>)

\* the line MarkdownFormatter.format builds for one segment
MarkdownLine(segment, include_timestamps) ==
  <<"-", " ">>
    \o (IF include_timestamps /\ segment.start # Absent
          THEN <<"*", "*">> \o format_timestamp(segment.start)
                 \o <<"*", "*", " ">>
          ELSE << >>)
    \o segment.text

\* MarkdownFormatter.format(transcript, include_timestamps)
MarkdownFormatter_format(segments, include_timestamps) ==
  Join([i \in 1..Len(segments) |->
          MarkdownLine(segments[i], include_timestamps)], <<"\n">>)

\* TranscriptSegment.end: start + duration when both are present
end(segment) ==
  IF segment.start # Absent /\ segment.duration # Absent
    THEN Some(segment.start[1] + segment.duration[1])
    ELSE Absent

\* `not x` for an Optional[float] x: None and 0.0 are falsy
Falsy(x) == x = Absent \/ x[1] = 0

\* Transcript.total_duration
total_duration(segments) ==
  IF segments = << >> \/ Falsy(end(segments[Len(segments)]))
    THEN Absent
    ELSE end(segments[Len(segments)])

(* ------------------------------ the inputs ----------------------------- *)
\* starts, in ticks: every combination of a few hours, minutes, seconds
\* and fractions of a second, hours past 99 included
StartValues ==
  {((h * 3600 + m * 60 + s) * TicksPerSecond) + f :
     h \in {0, 1, 23, 99, 100}, m \in {0, 1, 59}, s \in {0, 5, 59},
     f \in {0, 7, 9}}

Starts == {Absent} \cup {Some(t) : t \in StartValues}

\* segment texts as _build_transcript leaves them (stripped at both ends):
\* a word, a caption of two lines, an empty text
Texts == {<<"H", "i">>, <<"a", "\n", "b">>, << >>}

\* the segments rendered: absent start, start 0.0 and start 65.7
Segments ==
  [text : Texts,
   start : {Absent, Some(0), Some((65 * TicksPerSecond) + 7)}]

SegmentLists == UNION {[1..n -> Segments] : n \in 0..MaxSegments}

\* segments with a duration: absent, 0.0 or 2.5 seconds
TimedSegments ==
  [text : {<<"H", "i">>},
   start : {Absent, Some(0), Some((65 * TicksPerSecond) + 7)},
   duration : {Absent, Some(0), Some((2 * TicksPerSecond) + 5)}]

TimedSegmentLists == UNION {[1..n -> TimedSegments] : n \in 0..MaxSegments}

(* --------------------------- the specification ------------------------- *)
TimestampCalled(start) ==
  [f |-> "format_timestamp", start |-> start, done |-> FALSE]

PlainCalled(segments, include_timestamps) ==
  [f |-> "PlainFormatter.format", segments |-> segments,
   include_timestamps |-> include_timestamps, done |-> FALSE]

MarkdownCalled(segments, include_timestamps) ==
  [f |-> "MarkdownFormatter.format", segments |-> segments,
   include_timestamps |-> include_timestamps, done |-> FALSE]

\* the arguments get_formatter is called with: the members of FormatType,
\* and values that are no member (two str and an object of another class)
FormatTypeArgs == FormatTypes \cup {"plain", "json", "InvalidFormat()"}

GetFormatterCalled(format_type) ==
  [f |-> "get_formatter", format_type |-> format_type, done |-> FALSE]

\* raw entries: attribute-style and mapping-style, texts with and without
\* surrounding whitespace, start and duration present or missing
RawTexts == {<<" ", "H", "i", "\n">>, <<"a", " ", "b">>}

RawFields ==
  {[text |-> t] : t \in RawTexts}
    \cup {[text |-> t, start |-> st] : t \in RawTexts, st \in {0, 12}}
    \cup {[text |-> t, duration |-> 25] : t \in RawTexts}
    \cup {[text |-> t, start |-> st, duration |-> 25] :
            t \in RawTexts, st \in {0, 12}}

RawEntries == [style : {"attr", "dict"}, fields : RawFields]

RawEntryLists == UNION {[1..n -> RawEntries] : n \in 0..MaxSegments}

BuildTranscriptCalled(vid, code, data) ==
  [f |-> "_build_transcript", video_id |-> vid, language_code |-> code,
   data |-> data, done |-> FALSE]

TotalDurationCalled(segments) ==
  [f |-> "total_duration", segments |-> segments, done |-> FALSE]

Returned(c, ret) == [c EXCEPT !.done = TRUE] @@ [ret |-> ret]

InitFormat ==
  /\ ExtractorIdle
  /\ cli = NoCli
  /\ call \in {TimestampCalled(s) : s \in Starts}
          \cup {PlainCalled(segs, ts) : segs \in SegmentLists, ts \in BOOLEAN}
          \cup {MarkdownCalled(segs, ts) :
                  segs \in SegmentLists, ts \in BOOLEAN}
          \cup {GetFormatterCalled(ft) : ft \in FormatTypeArgs}
          \cup {TotalDurationCalled(segs) : segs \in TimedSegmentLists}
          \cup {BuildTranscriptCalled(vid, code, data) :
                  vid \in {"vidAAAAAAAA"}, code \in {"en", "es"},
                  data \in RawEntryLists}

\* TranscriptSegment.format_timestamp runs to its return
FormatTimestamp ==
  /\ call.f = "format_timestamp"
  /\ ~call.done
  /\ call' = Returned(call, format_timestamp(call.start))
  /\ UNCHANGED <<extractorVars, cli>>

\* PlainFormatter.format runs to its return
PlainFormat ==
  /\ call.f = "PlainFormatter.format"
  /\ ~call.done
  /\ call' = Returned(call, PlainFormatter_format(call.segments,
                                                  call.include_timestamps))
  /\ UNCHANGED <<extractorVars, cli>>

\* MarkdownFormatter.format runs to its return
MarkdownFormat ==
  /\ call.f = "MarkdownFormatter.format"
  /\ ~call.done
  /\ call' = Returned(call, MarkdownFormatter_format(call.segments,
                                                     call.include_timestamps))
  /\ UNCHANGED <<extractorVars, cli>>

\* get_formatter runs to its return or its raise
GetFormatter ==
  /\ call.f = "get_formatter"
  /\ ~call.done
  /\ call' = Returned(call, get_formatter(call.format_type))
  /\ UNCHANGED <<extractorVars, cli>>

\* the property Transcript.total_duration is read
TotalDuration ==
  /\ call.f = "total_duration"
  /\ ~call.done
  /\ call' = Returned(call, total_duration(call.segments))
  /\ UNCHANGED <<extractorVars, cli>>

\* _build_transcript runs to its return
BuildTranscript ==
  /\ call.f = "_build_transcript"
  /\ ~call.done
  /\ call' = Returned(call, _build_transcript(call.video_id,
                                              call.language_code, call.data))
  /\ UNCHANGED <<extractorVars, cli>>

NextFormat ==
  \/ FormatTimestamp
  \/ PlainFormat
  \/ MarkdownFormat
  \/ GetFormatter
  \/ TotalDuration
  \/ BuildTranscript

SpecFormat == InitFormat /\ [][NextFormat]_vars

(* ------------------------------- claims -------------------------------- *)
\* the value of a decimal digit, and of a string of decimal digits
DigitValue(c) == CHOOSE d \in 0..9 : DigitSeq[d + 1] = c

RECURSIVE Number(_)
Number(s) ==
  IF s = << >> THEN 0
  ELSE (Number(SubSeq(s, 1, Len(s) - 1)) * 10) + DigitValue(s[Len(s)])

\* a field of a timestamp: decimal digits, zero-padded to two and no more
PaddedField(s) ==
  /\ Len(s) >= 2
  /\ \A i \in 1..Len(s) : s[i] \in Digits
  /\ Len(s) > 2 => s[1] # "0"

TimestampDone == call.f = "format_timestamp" /\ call.done

\* C19: for a non-negative start the timestamp is [HH:MM:SS] with
\* hours = floor(start/3600), minutes and seconds in 0..59, every field
\* zero-padded to at least two digits, and hours*3600 + minutes*60 +
\* seconds equal to the start truncated to whole seconds; for an absent
\* start it is the empty string.
C19_TimestampTruncates ==
  TimestampDone =>
    IF call.start = Absent THEN call.ret = << >>
    ELSE LET r == call.ret
             fields == StrSplit(SubSeq(r, 2, Len(r) - 1), <<":">>)
             whole == call.start[1] \div TicksPerSecond
         IN /\ Len(r) >= 2
            /\ r[1] = "["
            /\ r[Len(r)] = "]"
            /\ Len(fields) = 3
            /\ \A i \in 1..3 : PaddedField(fields[i])
            /\ Number(fields[1]) = whole \div 3600
            /\ Number(fields[2]) = (whole % 3600) \div 60
            /\ Number(fields[3]) = whole % 60
            /\ Number(fields[2]) \in 0..59
            /\ Number(fields[3]) \in 0..59
            /\ (Number(fields[1]) * 3600) + (Number(fields[2]) * 60)
                 + Number(fields[3]) = whole

\* a start past 99 hours with a fraction of nine tenths was rendered
C19_Witness ==
  /\ TimestampDone
  /\ call.start # Absent
  /\ call.start[1] % TicksPerSecond = 9
  /\ call.start[1] \div (3600 * TicksPerSecond) >= 100
  /\ Len(call.ret) = 11

PlainDone == call.f = "PlainFormatter.format" /\ call.done

\* the line the plain renderer owes a segment
C20_Line(segment, include_timestamps) ==
  IF include_timestamps /\ segment.start # Absent
    THEN Cat(Cat(format_timestamp(segment.start), <<" ">>), segment.text)
    ELSE segment.text

\* C20: the plain renderer's output is exactly one line per segment, in
\* segment order, the lines joined by single newlines with no trailing
\* newline; a line is timestamp, space and text when include_timestamps is
\* set and the start is present, the text alone otherwise; an empty
\* transcript gives the empty string.
C20_PlainOneLinePerSegment ==
  PlainDone =>
    IF call.segments = << >> THEN call.ret = << >>
    ELSE /\ StrSplit(call.ret, <<"\n">>)
              = [i \in 1..Len(call.segments) |->
                   C20_Line(call.segments[i], call.include_timestamps)]
         /\ call.ret # << >> => call.ret[Len(call.ret)] # "\n"

MarkdownDone == call.f = "MarkdownFormatter.format" /\ call.done

\* a timestamp token: [HH:MM:SS] with padded decimal fields
TimestampToken(t) ==
  /\ Len(t) >= 10
  /\ t[1] = "["
  /\ t[Len(t)] = "]"
  /\ LET fields == StrSplit(SubSeq(t, 2, Len(t) - 1), <<":">>)
     IN Len(fields) = 3 /\ \A i \in 1..3 : PaddedField(fields[i])

\* the lengths of the timestamp tokens a line begins with (at most one)
TokenLengths(line) ==
  {k \in 1..Len(line) : TimestampToken(SubSeq(line, 1, k))}

\* a plain line with the timestamp token it begins with, if any, in bold
BoldToken(line) ==
  IF TokenLengths(line) = {} THEN line
  ELSE LET k == CHOOSE k \in TokenLengths(line) : TRUE
       IN Cat(Cat(Cat(<<"*", "*">>, SubSeq(line, 1, k)), <<"*", "*">>),
              SubSeq(line, k + 1, Len(line)))

\* C21: the markup renderer's output has as many lines as the plain
\* renderer's, in the same order, each "- " followed by the plain line with
\* an emitted timestamp token wrapped in **; segments without start bring
\* no bold marker; an empty transcript renders to the empty string.
C21_MarkdownIsBulletedPlain ==
  MarkdownDone =>
    LET md == StrSplit(call.ret, <<"\n">>)
        pl == StrSplit(PlainFormatter_format(call.segments,
                                             call.include_timestamps),
                       <<"\n">>)
    IN IF call.segments = << >> THEN call.ret = << >>
       ELSE /\ Len(md) = Len(pl)
            /\ \A i \in 1..Len(pl) :
                 md[i] = Cat(<<"-", " ">>,
                             IF call.include_timestamps
                               THEN BoldToken(pl[i]) ELSE pl[i])
            /\ (\A i \in 1..Len(call.segments) :
                  call.segments[i].start = Absent)
                 => ~StrIn(<<"*", "*">>, call.ret)

GetFormatterDone == call.f = "get_formatter" /\ call.done

\* C22: get_formatter gives the plain renderer for the plain identifier
\* and for no other, the markup renderer for the markdown identifier and
\* for no other; the json identifier fails as not yet implemented, every
\* other argument as an unsupported format, a different condition; nothing
\* but plain and markdown yields a renderer.
C22_RendererSelection ==
  GetFormatterDone =>
    /\ call.ret = "PlainFormatter" <=> call.format_type = PLAIN
    /\ call.ret = "MarkdownFormatter" <=> call.format_type = MARKDOWN
    /\ call.format_type = JSON
         => call.ret = "ValueError: not yet implemented"
    /\ call.format_type \notin FormatTypes
         => call.ret = "ValueError: unsupported format"
    /\ IsFormatter(call.ret) => call.format_type \in {PLAIN, MARKDOWN}

\* the json identifier was refused as not yet implemented
C22_Witness ==
  /\ GetFormatterDone
  /\ call.format_type = JSON
  /\ call.ret = "ValueError: not yet implemented"

TotalDurationDone == call.f = "total_duration" /\ call.done

\* C23: total_duration is absent exactly when the transcript has no
\* segments or its last segment lacks start or duration; in every other
\* case, a last segment with start 0 and duration 0 included, it is the
\* last segment's start + duration.
C23_TotalDurationIsLastEnd ==
  TotalDurationDone =>
    LET segs == call.segments
        last == segs[Len(segs)]
    IN IF segs = << >> THEN call.ret = Absent
       ELSE IF last.start = Absent \/ last.duration = Absent
         THEN call.ret = Absent
       ELSE call.ret = Some(last.start[1] + last.duration[1])

(* ======================================================================= *)
(* Further claims on the retrying fetcher and the entry points (Spec).     *)
(* ======================================================================= *)
\* the user's interrupt ended an inter-retry sleep, not a remote call
SleepWasInterrupted ==
  /\ raisedByRetry = KeyboardInterrupt
  /\ outcomes # << >>
  /\ Last(outcomes) # KeyboardInterrupt

\* C24: a user interrupt raised during a remote call or during an
\* inter-retry sleep leaves _fetch_with_retry and the entry point at once:
\* no attempt and no sleep follow it, and the entry point raises it as it
\* is, not as TranscriptNotAvailableError, LanguageNotFoundError or
\* NetworkError.
C24_InterruptPropagates ==
  /\ \A i \in 1..Len(outcomes) :
       outcomes[i] = KeyboardInterrupt
         => /\ i = Len(outcomes)
            /\ calls = i
            /\ sleeps = i - 1
            /\ raisedByRetry = KeyboardInterrupt
  /\ SleepWasInterrupted
       => /\ calls = Len(outcomes)
          /\ sleeps = Len(outcomes)
          /\ Last(outcomes) \in Transient \cup {OtherException}
  /\ raisedByRetry = KeyboardInterrupt => (~haveList /\ fetched = << >>)
  /\ Interrupted
       => /\ pc = "done"
          /\ result.kind = "raised"
          /\ result.error = KeyboardInterrupt
          /\ result.error \notin {TranscriptNotAvailableError,
                                  LanguageNotFoundError, NetworkError}

\* the interrupt arrived during the sleep that followed a transient
\* failure of extract_transcript's catalog fetch
C24_Witness ==
  /\ op = "extract"
  /\ SleepWasInterrupted
  /\ Last(outcomes) \in Transient
  /\ result.error = KeyboardInterrupt

(* ======================================================================= *)
(* Further claims on cli.main (SpecCli).                                   *)
(* ======================================================================= *)
\* C25: an output file that exists is overwritten only if --force was
\* given or the user confirmed the prompt; when the user declines, the
\* file keeps its content and the process exits with status 0; with
\* --force the file is replaced and no prompt is shown.
C25_OverwriteNeedsForceOrConfirmation ==
  /\ [][(cli.pc # "off" /\ cli.file # None /\ cli'.file # cli.file)
          => (cli.force \/ cli.confirmed)]_vars
  /\ [](cli.pc # "off" =>
          /\ cli.error = Cancelled
               => (cli.exit = 0 /\ cli.file = "old" /\ ~cli.confirmed)
          /\ cli.force => ~cli.prompted
          /\ (/\ cli.force
              /\ cli.pc = "exited"
              /\ cli.exit = 0
              /\ cli.output_file # None
              /\ cli.content # None)
               => cli.file = cli.content)

\* the user declined to overwrite an existing file
C25_Witness ==
  /\ cli.pc = "exited"
  /\ cli.error = Cancelled
  /\ cli.prompted
  /\ cli.file = "old"
  /\ cli.exit = 0

\* C26: the sleep after the failed attempt with index i lasts 2^i plus a
\* jitter of [0,1) seconds, so it lies in [2^i, 2^i + 1); the successive
\* sleeps of one retried call are strictly increasing; and a sleep happens
\* only when at least one attempt remains.
C26_BackoffDelays ==
  /\ Len(delays) = sleeps
  /\ \A i \in 1..Len(delays) :
       /\ delays[i] >= (2 ^ (i - 1)) * TicksPerSecond
       /\ delays[i] < ((2 ^ (i - 1)) + 1) * TicksPerSecond
       /\ i <= Len(outcomes)
       /\ outcomes[i] \in Transient \cup {OtherException}
  /\ \A i, j \in 1..Len(delays) : i < j => delays[i] < delays[j]
  /\ pc = "sleeping" => attempt + 1 < max_retries
  /\ sleeps > 0 => sleeps <= max_retries - 1

\* two sleeps of one call, the first with the largest jitter and the
\* second with none
C26_Witness ==
  /\ Len(delays) = 2
  /\ delays[1] = Delay(0, TicksPerSecond - 1)
  /\ delays[2] = Delay(1, 0)

(* ======================================================================= *)
(* Claim on _build_transcript (SpecFormat).                                *)
(* ======================================================================= *)
BuildDone == call.f = "_build_transcript" /\ call.done

AllWhitespace(s) == \A i \in 1..Len(s) : s[i] \in Whitespace

\* t is raw without its surrounding whitespace
StrippedOf(t, raw) ==
  /\ t = << >> \/ (t[1] \notin Whitespace /\ t[Len(t)] \notin Whitespace)
  /\ \E a \in 0..Len(raw) :
       /\ a + Len(t) <= Len(raw)
       /\ SubSeq(raw, a + 1, a + Len(t)) = t
       /\ AllWhitespace(SubSeq(raw, 1, a))
       /\ AllWhitespace(SubSeq(raw, a + Len(t) + 1, Len(raw)))

\* C27: _build_transcript gives one segment per raw entry, in the input
\* order, nothing sorted, dropped or merged: segment i has entry i's text
\* without its surrounding whitespace and entry i's start and duration,
\* absent where the entry has none, for attribute-style and mapping-style
\* entries alike; the Transcript has the video_id and language_code given.
C27_OneSegmentPerEntry ==
  BuildDone =>
    /\ call.ret.video_id = call.video_id
    /\ call.ret.language_code = call.language_code
    /\ Len(call.ret.segments) = Len(call.data)
    /\ \A i \in 1..Len(call.data) :
         LET seg == call.ret.segments[i]
             entry == call.data[i].fields
         IN /\ StrippedOf(seg.text, entry.text)
            /\ seg.start = IF "start" \in DOMAIN entry
                             THEN Some(entry.start) ELSE Absent
            /\ seg.duration = IF "duration" \in DOMAIN entry
                                THEN Some(entry.duration) ELSE Absent

\* two entries of different styles, the later one first in time and the
\* earlier one without a duration, came out in the input order
C27_Witness ==
  /\ BuildDone
  /\ Len(call.data) = 2
  /\ call.data[1].style = "dict"
  /\ call.data[2].style = "attr"
  /\ call.ret.segments[1] = [text |-> <<"H", "i">>, start |-> Some(12),
                             duration |-> Absent]
  /\ call.ret.segments[2].start = Some(0)

\* _fetch_with_retry has returned or raised
RetryEnded == haveList \/ raisedByRetry # None

\* C28: for max_retries >= 1 and any sequence of outcomes of the retried
\* operation (no sleep being interrupted from outside), _fetch_with_retry
\* invokes the operation at least once and at most max_retries times,
\* sleeps at most max_retries - 1 times and never after its last attempt,
\* and always ends, with the operation's result or with the exception of
\* its last attempt.
C28_RetryIsBounded ==
  /\ [](max_retries >= 1 =>
          /\ calls <= max_retries
          /\ sleeps <= max_retries - 1
          /\ (RetryEnded /\ ~SleepWasInterrupted)
               => /\ calls >= 1
                  /\ Len(outcomes) = calls
                  /\ sleeps = calls - 1
                  /\ haveList <=> Last(outcomes) = "ok"
                  /\ ~haveList => raisedByRetry = Last(outcomes))
  /\ (max_retries >= 1 /\ pc = "retry") ~> RetryEnded

\* the last allowed attempt failed after two sleeps, and its exception,
\* not an earlier one, left _fetch_with_retry
C28_Witness ==
  /\ max_retries = 3
  /\ outcomes = <<OtherException, YouTubeRequestFailed, RequestBlocked>>
  /\ sleeps = 2
  /\ raisedByRetry = RequestBlocked

\* the catalog fetch failed transiently k >= 1 times and then permanently
TransientsThenPermanent ==
  /\ Len(outcomes) >= 2
  /\ \A i \in 1..(Len(outcomes) - 1) : outcomes[i] \in Transient
  /\ Last(outcomes) \in Permanent

\* C29: when the retried operation fails transiently k times
\* (1 <= k < max_retries) and then permanently, _fetch_with_retry stops at
\* that attempt, after exactly k + 1 invocations and exactly k sleeps, and
\* the permanent failure, not an earlier transient one, is the exception
\* that leaves it and that extract_transcript maps to its error kind.
C29_PermanentAfterTransients ==
  TransientsThenPermanent =>
    LET k == Len(outcomes) - 1
    IN /\ k < max_retries
       /\ pc = "done"
       /\ calls = k + 1
       /\ sleeps = k
       /\ raisedByRetry = Last(outcomes)
       /\ result.kind = "raised"
       /\ op = "extract" =>
            /\ result.error =
                 IF Last(outcomes) = NoTranscriptFound /\ Truthy(language)
                   THEN LanguageNotFoundError
                   ELSE TranscriptNotAvailableError
            /\ result.msg = MapExtractMsg(Last(outcomes), language)

\* two transient failures, then the video turned out to be unavailable
C29_Witness ==
  /\ op = "extract"
  /\ outcomes = <<RequestBlocked, YouTubeRequestFailed, VideoUnavailable>>
  /\ calls = 3
  /\ sleeps = 2
  /\ result.error = TranscriptNotAvailableError

====
